---- MODULE Spec2Model ----
(***************************************************************************)
(* A model of lidbox/commands/e2e.py: the configuration fingerprint        *)
(* (config_checksum), the utterance registry built by                      *)
(* E2EBase.extract_features, and the on-disk feature cache life cycle of   *)
(* Train.train and Predict.predict.                                        *)
(*                                                                         *)
(* Three specifications share the module:                                  *)
(*   SpecChecksum  config_checksum applied to pairs of configurations      *)
(*   SpecRegistry  extract_features' registry part applied to manifests    *)
(*   Spec          sequences of train/predict runs over one cache root     *)
(***************************************************************************)
EXTENDS Integers, Sequences, FiniteSets, TLC

VARIABLES
    ckIn,       \* SpecChecksum: the two (config, datagroup_key) inputs
    ckOut,      \* SpecChecksum: the two results of config_checksum
    rgIn,       \* SpecRegistry: the datasets, their manifests, the args
    rgOut,      \* SpecRegistry: the outcome of registry construction
    pc,         \* Spec: per process, the position of its run in train()/predict()
    run,        \* Spec: per process, the locals of its run
    marker,     \* Spec: cache path -> contents of <path>.md5sum-input
    enc,        \* Spec: cache path -> the tf.data cache files at <path>
    hist,       \* Spec: cache path -> what has happened to the entry so far
    nruns,      \* Spec: number of runs started so far
    ohIn,       \* SpecOnehot: the label vocabulary, onehot_dims and a label
    ohOut,      \* SpecOnehot: the outcome of label2onehot
    pdIn,       \* SpecPredict: the configuration and files of a prediction run
    pdOut       \* SpecPredict: how the run ended and the files it wrote

ckVars == <<ckIn, ckOut>>
rgVars == <<rgIn, rgOut>>
cacheVars == <<pc, run, marker, enc, hist, nruns>>
ohVars == <<ohIn, ohOut>>
pdVars == <<pdIn, pdOut>>
vars == <<ckIn, ckOut, rgIn, rgOut, pc, run, marker, enc, hist, nruns, ohIn, ohOut, pdIn, pdOut>>

(***************************************************************************)
(* Python values as they occur in the experiment configuration.  A dict    *)
(* keeps its insertion order (a sequence of <<key, value>> pairs with      *)
(* distinct keys); == on dicts ignores that order, == on lists does not.   *)
(***************************************************************************)
PyStr(s) == [t |-> "str", s |-> s]
PyNum(s) == [t |-> "num", s |-> s]
PyList(items) == [t |-> "list", items |-> items]
PyDict(pairs) == [t |-> "dict", pairs |-> pairs]

Keys(d) == {d.pairs[i][1] : i \in 1..Len(d.pairs)}
Get(d, k) == (CHOOSE i \in 1..Len(d.pairs) : d.pairs[i][1] = k)
Lookup(d, k) == d.pairs[Get(d, k)][2]

RECURSIVE PyEq(_, _)
PyEq(x, y) ==
    IF x.t # y.t THEN FALSE
    ELSE IF x.t = "dict"
         THEN /\ Keys(x) = Keys(y)
              /\ \A k \in Keys(x) : PyEq(Lookup(x, k), Lookup(y, k))
    ELSE IF x.t = "list"
         THEN /\ Len(x.items) = Len(y.items)
              /\ \A i \in 1..Len(x.items) : PyEq(x.items[i], y.items[i])
    ELSE x.s = y.s

(***************************************************************************)
(* json.dumps(v, ensure_ascii=False, sort_keys=True): the default          *)
(* separators ", " and ": ", dict items in ascending key order.            *)
(***************************************************************************)
\* The configuration keys of the model in ascending (code point) order.
KeyOrder == <<"datasets", "experiment", "features", "key", "labels", "name", "type", "window">>
KeyRank(k) == CHOOSE i \in 1..Len(KeyOrder) : KeyOrder[i] = k

RECURSIVE InsertPair(_, _)
InsertPair(sorted, p) ==
    IF sorted = <<>> THEN <<p>>
    ELSE IF KeyRank(p[1]) < KeyRank(Head(sorted)[1]) THEN <<p>> \o sorted
    ELSE <<Head(sorted)>> \o InsertPair(Tail(sorted), p)

RECURSIVE SortedItems(_)
SortedItems(pairs) ==
    IF pairs = <<>> THEN <<>>
    ELSE InsertPair(SortedItems(Tail(pairs)), Head(pairs))

\* the order in which json.dumps writes the items of a dict
DictItems(pairs) == SortedItems(pairs)

RECURSIVE Join(_, _)
Join(strs, sep) ==
    IF strs = <<>> THEN ""
    ELSE IF Len(strs) = 1 THEN strs[1]
    ELSE strs[1] \o sep \o Join(Tail(strs), sep)

RECURSIVE Dumps(_)
Dumps(v) ==
    IF v.t = "str" THEN "\"" \o v.s \o "\""
    ELSE IF v.t = "num" THEN v.s
    ELSE IF v.t = "list"
         THEN "[" \o Join([i \in 1..Len(v.items) |-> Dumps(v.items[i])], ", ") \o "]"
    ELSE LET items == DictItems(v.pairs)
         IN  "{" \o Join([i \in 1..Len(items) |->
                            "\"" \o items[i][1] \o "\": " \o Dumps(items[i][2])], ", ")
                 \o "}"

\* hashlib.md5(bytes).hexdigest(): a deterministic function of the bytes,
\* taken to be free of collisions on the configurations of the model.
Md5Hex(bytes) == "md5<" \o bytes \o ">"

\* md5input = {k: config[k] for k in ("features", "datasets")}
Md5InputWholeConfig(config, datagroup_key) == config
Md5Input(config, datagroup_key) ==
    PyDict(<< <<"features", Lookup(config, "features")>>,
              <<"datasets", Lookup(config, "datasets")>> >>)

config_checksum(config, datagroup_key) ==
    LET json_str == Dumps(Md5Input(config, datagroup_key)) \o "\n"
    IN  [json |-> json_str, digest |-> Md5Hex(json_str)]

(***************************************************************************)
(* The configurations of the model.                                        *)
(***************************************************************************)
DatasetD1 == PyDict(<< <<"key", PyStr("d1")>>, <<"labels", PyList(<<PyStr("en")>>)>> >>)
DatasetD1r == PyDict(<< <<"labels", PyList(<<PyStr("en")>>)>>, <<"key", PyStr("d1")>> >>)
DatasetD2 == PyDict(<< <<"key", PyStr("d2")>>, <<"labels", PyList(<<PyStr("en")>>)>> >>)

FeaturesValues ==
    { PyDict(<< <<"type", PyStr("mfcc")>>, <<"window", PyNum("25")>> >>),
      PyDict(<< <<"window", PyNum("25")>>, <<"type", PyStr("mfcc")>> >>),
      PyDict(<< <<"type", PyStr("mfcc")>>, <<"window", PyNum("10")>> >>),
      PyDict(<< <<"type", PyStr("melspec")>>, <<"window", PyNum("25")>> >>) }
DatasetsValues ==
    { PyList(<<DatasetD1>>), PyList(<<DatasetD1r>>),
      PyList(<<DatasetD1, DatasetD2>>), PyList(<<DatasetD2, DatasetD1>>) }
ExperimentValues ==
    { PyDict(<< <<"name", PyStr("m1")>> >>), PyDict(<< <<"name", PyStr("m2")>> >>) }

\* experiment_config as loaded from the yaml file, in two key orders
AllConfigs ==
    { PyDict(<< <<"experiment", e>>, <<"features", f>>, <<"datasets", d>> >>) :
        e \in ExperimentValues, f \in FeaturesValues, d \in DatasetsValues }
    \cup
    { PyDict(<< <<"datasets", d>>, <<"features", f>>, <<"experiment", e>> >>) :
        e \in ExperimentValues, f \in FeaturesValues, d \in DatasetsValues }

DatagroupKeys == {"train", "dev"}

(***************************************************************************)
(* SpecChecksum: config_checksum applied to two inputs.                    *)
(***************************************************************************)
ChecksumInit ==
    /\ ckIn \in [a : AllConfigs, ka : DatagroupKeys, b : AllConfigs, kb : DatagroupKeys]
    /\ ckOut = <<>>

ChecksumIdle ==
    /\ ckIn = <<>>
    /\ ckOut = <<>>

ComputeChecksums ==
    /\ ckOut = <<>>
    /\ ckOut' = <<config_checksum(ckIn.a, ckIn.ka), config_checksum(ckIn.b, ckIn.kb)>>
    /\ UNCHANGED ckIn

(***************************************************************************)
(* The utterance registry: E2EBase.extract_features, lines 136-205.        *)
(*                                                                         *)
(* A dataset of the model is the part of ds_config and of the files of its *)
(* datagroup that the function reads:                                      *)
(*   key, labels           ds_config["key"], ds_config["labels"]           *)
(*   utt2label, utt2path   the rows of the two manifests, <<id, field>>    *)
(*   has_utt2dur, utt2dur  whether the utt2dur file exists, and its rows   *)
(*   shuffle_utt2path      datagroup.get("shuffle_utt2path", False)        *)
(* utt2meta and utt2path are OrderedDicts: sequences of <<key, value>>     *)
(* in insertion order; assigning to a key that is present keeps its place. *)
(***************************************************************************)
ODKeys(od) == {od[i][1] : i \in 1..Len(od)}
ODKeyList(od) == [i \in 1..Len(od) |-> od[i][1]]
ODGet(od, k) == od[CHOOSE i \in 1..Len(od) : od[i][1] = k][2]
ODSet(od, k, v) ==
    IF k \in ODKeys(od)
    THEN [i \in 1..Len(od) |-> IF od[i][1] = k THEN <<k, v>> ELSE od[i]]
    ELSE Append(od, <<k, v>>)

SeqToSet(q) == {q[i] : i \in 1..Len(q)}

\* float(duration) of the duration texts of the model, in tenths of a second
Float(text) == CASE text = "2.5" -> 25 [] text = "4.0" -> 40 [] OTHER -> 0
\* the -1.0 a record starts with (line 162), in tenths of a second
NoDuration == -10

NoError == "ok"
ErrDupLabel == "duplicate utterance id found when parsing labels"
ErrDurNoLabel == "utterance id without label found when parsing durations"
ErrDupPath == "duplicate utterance id found when parsing paths"
ErrMismatch == "Mismatching sets of utterances in utt2path and utt2meta"
ErrKeyError == "KeyError"

\* lines 157-162: one row of utt2label
LabelRowNoDupCheck(st, row, ds) ==
    IF st.err # NoError THEN st
    ELSE IF row[2] \notin SeqToSet(ds.labels)
         THEN [st EXCEPT !.skipped = @ \cup {row[1]}]
    ELSE [st EXCEPT !.utt2meta =
            ODSet(@, row[1], [label |-> row[2], dataset |-> ds.key,
                              duration_sec |-> NoDuration])]
LabelRow(st, row, ds) ==
    IF st.err # NoError THEN st
    ELSE IF row[2] \notin SeqToSet(ds.labels)
         THEN [st EXCEPT !.skipped = @ \cup {row[1]}]
    ELSE IF row[1] \in ODKeys(st.utt2meta)
         THEN [st EXCEPT !.err = ErrDupLabel]
    ELSE [st EXCEPT !.utt2meta =
            ODSet(@, row[1], [label |-> row[2], dataset |-> ds.key,
                              duration_sec |-> NoDuration])]

\* lines 167-169: one row of utt2dur
DurationRowNotStored(st, row, ds) ==
    IF st.err # NoError THEN st
    ELSE IF row[1] \notin ODKeys(st.utt2meta)
         THEN [st EXCEPT !.err = ErrDurNoLabel]
    ELSE st
DurationRowNoAssert(st, row, ds) ==
    IF st.err # NoError THEN st
    ELSE IF row[1] \notin ODKeys(st.utt2meta) THEN st
    ELSE [st EXCEPT !.utt2meta =
            ODSet(@, row[1], [ODGet(@, row[1]) EXCEPT !.duration_sec = Float(row[2])])]
DurationRow(st, row, ds) ==
    IF st.err # NoError THEN st
    ELSE IF row[1] \notin ODKeys(st.utt2meta)
         THEN [st EXCEPT !.err = ErrDurNoLabel]
    ELSE [st EXCEPT !.utt2meta =
            ODSet(@, row[1], [ODGet(@, row[1]) EXCEPT !.duration_sec = Float(row[2])])]

\* lines 175-179: one row of utt2path
PathRowNoSkip(st, row, ds) ==
    IF st.err # NoError THEN st
    ELSE IF row[1] \in ODKeys(st.utt2path)
         THEN [st EXCEPT !.err = ErrDupPath]
    ELSE [st EXCEPT !.utt2path = ODSet(@, row[1], row[2])]
PathRowNoDupCheck(st, row, ds) ==
    IF st.err # NoError THEN st
    ELSE IF row[1] \in st.skipped THEN st
    ELSE [st EXCEPT !.utt2path = ODSet(@, row[1], row[2])]
PathRow(st, row, ds) ==
    IF st.err # NoError THEN st
    ELSE IF row[1] \in st.skipped THEN st
    ELSE IF row[1] \in ODKeys(st.utt2path)
         THEN [st EXCEPT !.err = ErrDupPath]
    ELSE [st EXCEPT !.utt2path = ODSet(@, row[1], row[2])]

RECURSIVE LabelRows(_, _, _)
LabelRows(st, rows, ds) ==
    IF rows = <<>> THEN st ELSE LabelRows(LabelRow(st, Head(rows), ds), Tail(rows), ds)
RECURSIVE DurationRows(_, _, _)
DurationRows(st, rows, ds) ==
    IF rows = <<>> THEN st ELSE DurationRows(DurationRow(st, Head(rows), ds), Tail(rows), ds)
RECURSIVE PathRows(_, _, _)
PathRows(st, rows, ds) ==
    IF rows = <<>> THEN st ELSE PathRows(PathRow(st, Head(rows), ds), Tail(rows), ds)

\* lines 143-179: the body of "for ds_config in datasets"
ReadDataset(st, ds) ==
    LET s0 == [st EXCEPT !.skipped = {}]                      \* line 156
        s1 == LabelRows(s0, ds.utt2label, ds)
        s2 == IF ds.has_utt2dur THEN DurationRows(s1, ds.utt2dur, ds) ELSE s1
    IN  PathRows(s2, ds.utt2path, ds)

RECURSIVE ReadDatasets(_, _)
ReadDatasets(st, datasets) ==
    IF datasets = <<>> THEN st
    ELSE ReadDatasets(ReadDataset(st, Head(datasets)), Tail(datasets))

\* line 184: assert set(utt2path) == set(utt2meta)
NoSetCheck(st) ==
    st
CheckSameIds(st) ==
    IF st.err = NoError /\ ODKeys(st.utt2path) # ODKeys(st.utt2meta)
    THEN [st EXCEPT !.err = ErrMismatch]
    ELSE st

\* lines 186-189: random.shuffle under --shuffle-utt2path or the flag of the
\* datagroup of the last dataset read; perm is the permutation it draws
Perms(n) == {f \in [1..n -> 1..n] : \A i, j \in 1..n : f[i] = f[j] => i = j}
Shuffles(datasets, args) ==
    args.shuffle_utt2path \/ datasets[Len(datasets)].shuffle_utt2path
Shuffled(list, perm) == [i \in 1..Len(list) |-> list[perm[i]]]

\* lines 193-196: utterance_list[:args.file_limit] when the limit is set
Limited(list, file_limit) ==
    IF file_limit = 0 THEN list
    ELSE IF file_limit > 0
         THEN SubSeq(list, 1, IF file_limit < Len(list) THEN file_limit ELSE Len(list))
    ELSE SubSeq(list, 1, IF Len(list) + file_limit > 0 THEN Len(list) + file_limit ELSE 0)

\* lines 186-196: the shuffle comes first, the file limit cuts its result
LimitThenShuffle(all, shuffles, file_limit, perm) ==
    LET cut == SeqToSet(Limited(all, file_limit))
    IN  IF shuffles THEN SelectSeq(Shuffled(all, perm), LAMBDA utt : utt \in cut)
        ELSE Limited(all, file_limit)
ShuffleThenLimit(all, shuffles, file_limit, perm) ==
    Limited(IF shuffles THEN Shuffled(all, perm) ELSE all, file_limit)

\* lines 136-205: the registry, or the assertion that ended it
BuildRegistry(datasets, args, perm) ==
    LET st0 == [utt2meta |-> <<>>, utt2path |-> <<>>, skipped |-> {}, err |-> NoError]
        st == CheckSameIds(ReadDatasets(st0, datasets))
        all == ODKeyList(st.utt2path)
        utterance_list == ShuffleThenLimit(all, Shuffles(datasets, args), args.file_limit, perm)
    IN  IF st.err # NoError
        THEN [err |-> st.err, utterance_list |-> <<>>, paths |-> <<>>, paths_meta |-> <<>>]
        ELSE IF \E i \in 1..Len(utterance_list) :
                    utterance_list[i] \notin ODKeys(st.utt2meta)     \* line 204
        THEN [err |-> ErrKeyError, utterance_list |-> <<>>, paths |-> <<>>, paths_meta |-> <<>>]
        ELSE [err |-> NoError,
              utterance_list |-> utterance_list,
              paths |-> [i \in 1..Len(utterance_list) |-> ODGet(st.utt2path, utterance_list[i])],
              paths_meta |-> [i \in 1..Len(utterance_list) |->
                  LET utt == utterance_list[i]
                      meta == ODGet(st.utt2meta, utt)
                  IN  <<utt, meta.label, meta.dataset, meta.duration_sec>>]]

(***************************************************************************)
(* SpecRegistry: the registry built from bounded manifests.                *)
(***************************************************************************)
MaxLines == 2
MaxDurLines == 1

Utts == {"a", "b"}
LabelNames == {"en", "fr"}
DurTexts == {"2.5"}
SeqsUpTo(S, n) == UNION {[1..k -> S] : k \in 0..n}
WavPath(key, utt) == "/" \o key \o "/" \o utt \o ".wav"

\* dataset d1 enables the label en; its manifests are all the bounded ones
\* (utt2dur has rows only if the file exists)
FirstDatasets ==
    { [key |-> "d1", labels |-> <<"en">>, utt2label |-> l, utt2path |-> p,
       has_utt2dur |-> d # <<>> \/ h, utt2dur |-> d, shuffle_utt2path |-> FALSE] :
        l \in SeqsUpTo(Utts \X LabelNames, MaxLines),
        p \in SeqsUpTo({<<u, WavPath("d1", u)>> : u \in Utts}, MaxLines),
        h \in BOOLEAN,
        d \in SeqsUpTo(Utts \X DurTexts, MaxDurLines) }

\* dataset d2 enables the label fr; a few manifests that overlap with d1's ids
SecondDataset(l, p, h, d, sh) ==
    [key |-> "d2", labels |-> <<"fr">>, utt2label |-> l, utt2path |-> p,
     has_utt2dur |-> h, utt2dur |-> d, shuffle_utt2path |-> sh]
SecondDatasets ==
    { SecondDataset(<< <<"b", "fr">> >>, << <<"b", WavPath("d2", "b")>> >>, FALSE, <<>>, TRUE),
      SecondDataset(<< <<"a", "en">> >>, << <<"a", WavPath("d2", "a")>> >>, FALSE, <<>>, FALSE),
      SecondDataset(<<>>, << <<"a", WavPath("d2", "a")>> >>, FALSE, <<>>, FALSE),
      SecondDataset(<<>>, <<>>, TRUE, << <<"a", "4.0">> >>, FALSE) }

\* self.experiment_config["datasets"]: d1 alone, or d1 and d2 in either order
DatasetLists(d1) ==
    {<<d1>>} \cup {<<d1, d2>> : d2 \in SecondDatasets} \cup {<<d2, d1>> : d2 \in SecondDatasets}

RegistryInit ==
    /\ \E d1 \in FirstDatasets, sh \in BOOLEAN, fl \in {0, 1} :
          \E ds \in DatasetLists(d1) :
             rgIn = [datasets |-> ds, shuffle_utt2path |-> sh, file_limit |-> fl]
    /\ rgOut = <<>>

RegistryIdle ==
    /\ rgIn = <<>>
    /\ rgOut = <<>>

\* the ids random.shuffle permutes, when it is reached
IdsRead(datasets) ==
    ODKeyList(ReadDatasets([utt2meta |-> <<>>, utt2path |-> <<>>, skipped |-> {},
                            err |-> NoError], datasets).utt2path)
Identity(n) == [i \in 1..n |-> i]
DrawnPerms(datasets, args) ==
    IF Shuffles(datasets, args) THEN Perms(Len(IdsRead(datasets)))
    ELSE {Identity(Len(IdsRead(datasets)))}

BuildRegistryStep ==
    /\ rgOut = <<>>
    /\ \E perm \in DrawnPerms(rgIn.datasets, rgIn) :
          rgOut' = <<[perm |-> perm, reg |-> BuildRegistry(rgIn.datasets, rgIn, perm)]>>
    /\ UNCHANGED rgIn

(***************************************************************************)
(* Feature extraction behind the registry: extract_features, lines         *)
(* 212-242.  The kaldi and sparsespeech branches read the name utt2label,  *)
(* which the function never binds (NameError); every other type goes to    *)
(* tf_data.extract_features_from_paths.                                    *)
(***************************************************************************)
ErrNameError == "NameError: name 'utt2label' is not defined"

\* tf_data.extract_features_from_paths: one record per path, in the order
\* of the registry, carrying the features of the path under feat_config
\* and the metadata of the utterance
FeatureRecords(feat_config, paths, paths_meta) ==
    [i \in 1..Len(paths) |->
        [feats |-> <<paths[i], Lookup(feat_config, "type").s, Lookup(feat_config, "window").s>>,
         meta |-> paths_meta[i]]]

Dispatch(feat_config, reg) ==
    IF reg.err # NoError THEN [err |-> reg.err, recs |-> <<>>]
    ELSE IF Lookup(feat_config, "type").s \in {"sparsespeech", "kaldi"}
         THEN [err |-> ErrNameError, recs |-> <<>>]                  \* lines 224, 231
    ELSE [err |-> NoError, recs |-> FeatureRecords(feat_config, reg.paths, reg.paths_meta)]

extract_features(datasets, feat_config, args, perm) ==
    Dispatch(feat_config, BuildRegistry(datasets, args, perm))

(***************************************************************************)
(* The files a run reads: the manifests of each dataset's datagroups.      *)
(* d1 is consistent; d2 lists a path for an utterance it gives no label.   *)
(***************************************************************************)
DiskManifests(key, datagroup_key) ==
    IF key = "d1" /\ datagroup_key = "train"
    THEN [utt2label |-> << <<"a", "en">>, <<"b", "en">> >>,
          utt2path |-> << <<"a", WavPath("d1", "a")>>, <<"b", WavPath("d1", "b")>> >>,
          has_utt2dur |-> TRUE, utt2dur |-> << <<"a", "2.5">> >>]
    ELSE IF key = "d1"
    THEN [utt2label |-> << <<"c", "en">> >>,
          utt2path |-> << <<"c", WavPath("d1", "c")>> >>,
          has_utt2dur |-> FALSE, utt2dur |-> <<>>]
    ELSE [utt2label |-> <<>>,
          utt2path |-> << <<"a", WavPath(key, "a")>> >>,
          has_utt2dur |-> FALSE, utt2dur |-> <<>>]

\* what extract_features reads of one element of config["datasets"]
DiskDataset(ds_config, datagroup_key) ==
    LET key == Lookup(ds_config, "key").s
        labels == Lookup(ds_config, "labels").items
        m == DiskManifests(key, datagroup_key)
    IN  [key |-> key, labels |-> [i \in 1..Len(labels) |-> labels[i].s],
         utt2label |-> m.utt2label, utt2path |-> m.utt2path,
         has_utt2dur |-> m.has_utt2dur, utt2dur |-> m.utt2dur,
         shuffle_utt2path |-> FALSE]
DiskDatasets(config, datagroup_key) ==
    LET list == Lookup(config, "datasets").items
    IN  [i \in 1..Len(list) |-> DiskDataset(list[i], datagroup_key)]

(***************************************************************************)
(* The configurations the runs of Spec are started with.                   *)
(***************************************************************************)
FeatMfcc25 == PyDict(<< <<"type", PyStr("mfcc")>>, <<"window", PyNum("25")>> >>)
FeatMfcc25r == PyDict(<< <<"window", PyNum("25")>>, <<"type", PyStr("mfcc")>> >>)
FeatMfcc10 == PyDict(<< <<"type", PyStr("mfcc")>>, <<"window", PyNum("10")>> >>)
FeatKaldi == PyDict(<< <<"type", PyStr("kaldi")>>, <<"window", PyNum("25")>> >>)
ExpM1 == PyDict(<< <<"name", PyStr("m1")>> >>)
ExpM2 == PyDict(<< <<"name", PyStr("m2")>> >>)

RunConfigIds == {"X", "Xr", "Y", "W", "K"}
ConfigOf(id) ==
    CASE id = "X" -> PyDict(<< <<"experiment", ExpM1>>, <<"features", FeatMfcc25>>,
                               <<"datasets", PyList(<<DatasetD1>>)>> >>)
      [] id = "Xr" -> PyDict(<< <<"datasets", PyList(<<DatasetD1r>>)>>,
                                <<"features", FeatMfcc25r>>, <<"experiment", ExpM2>> >>)
      [] id = "Y" -> PyDict(<< <<"experiment", ExpM1>>, <<"features", FeatMfcc10>>,
                               <<"datasets", PyList(<<DatasetD1>>)>> >>)
      [] id = "W" -> PyDict(<< <<"experiment", ExpM1>>, <<"features", FeatMfcc25>>,
                               <<"datasets", PyList(<<DatasetD1, DatasetD2>>)>> >>)
      [] OTHER -> PyDict(<< <<"experiment", ExpM1>>, <<"features", FeatKaldi>>,
                            <<"datasets", PyList(<<DatasetD1>>)>> >>)

\* training_config["train"]["datagroup"], training_config["validation"]["datagroup"]
DatagroupOf == <<"train", "dev">>

(***************************************************************************)
(* Label encoding: make_label2onehot (lines 36-48) and the label2onehot    *)
(* closures of Train.train (lines 292-300) and Predict.predict (lines      *)
(* 555-563).  Indices are those of the code, counted from 0; a vector is a *)
(* sequence of 0s and 1s.                                                  *)
(***************************************************************************)
NoFile == "<no file>"

ErrSliceIndex == "InvalidArgumentError: slice index out of bounds"
ErrConcatAxis == "TypeError: concat() missing 1 required positional argument: 'axis'"

\* lines 40-46: label2int.lookup(label), with default value len(labels)
Label2Int(labels, label) ==
    IF \E i \in 1..Len(labels) : labels[i] = label
    THEN (CHOOSE i \in 1..Len(labels) : labels[i] = label) - 1
    ELSE Len(labels)

\* line 47: OH = tf.one_hot(labels_enum, len(labels))
OneHotTable(labels) ==
    [i \in 1..Len(labels) |-> [j \in 1..Len(labels) |-> IF i = j THEN 1 ELSE 0]]

\* OH[index]: the row, or the error of an index past the last row
TableRow(OH, index) ==
    IF index < Len(OH) THEN [err |-> NoError, vec |-> OH[index + 1]]
    ELSE [err |-> ErrSliceIndex, vec |-> <<>>]

\* lines 294-300: with onehot_dims set, the row goes through
\* tf.concat((o, tf.zeros(...))), called without its axis argument
label2onehot(labels, onehot_dims, label) ==
    LET o == TableRow(OneHotTable(labels), Label2Int(labels, label))
    IN  IF onehot_dims # 0 /\ o.err = NoError
        THEN [err |-> ErrConcatAxis, vec |-> <<>>]
        ELSE o

\* SpecOnehot: label2onehot applied to a vocabulary, onehot_dims and a label
VocabNames == {"en", "fr", "de"}
Vocabularies ==
    {v \in SeqsUpTo(VocabNames, Cardinality(VocabNames)) :
        \A i, j \in 1..Len(v) : v[i] = v[j] => i = j}
OnehotDims == {0, 3, 5}

OnehotInit ==
    /\ ohIn \in [labels : Vocabularies, onehot_dims : OnehotDims, label : VocabNames \cup {"es"}]
    /\ ohOut = <<>>

OnehotIdle ==
    /\ ohIn = <<>>
    /\ ohOut = <<>>

EncodeLabel ==
    /\ ohOut = <<>>
    /\ ohOut' = <<label2onehot(ohIn.labels, ohIn.onehot_dims, ohIn.label)>>
    /\ UNCHANGED ohIn

(***************************************************************************)
(* Predict.predict, lines 480-648, as one run on the files of the test     *)
(* datagroup.  pdIn is what the run reads:                                 *)
(*   labels                 experiment_config["dataset"]["labels"]         *)
(*   utt2label, utt2path    the rows of the two manifests of the datagroup *)
(*   file_limit             args.file_limit                                *)
(*   has_checkpoint         whether a checkpoint of the model exists       *)
(* pdOut is how the run ended, the lists it built before it called         *)
(* extract_features, and the trials and scores files as it left them.      *)
(***************************************************************************)
ErrNoCheckpoint == "Error: Cannot evaluate with a model that has no checkpoints"
ErrTypeError == "TypeError: extract_features() missing 1 required positional argument"

\* lines 542-547: collections.OrderedDict(row[:2] for row in ...), where a
\* later row of a key replaces the value and keeps the place of the first
RECURSIVE ODFromRows(_, _)
ODFromRows(od, rows) ==
    IF rows = <<>> THEN od
    ELSE ODFromRows(ODSet(od, Head(rows)[1], Head(rows)[2]), Tail(rows))

\* lines 564-572: the loop over utterance_list
RECURSIVE PredictLoop(_, _, _, _)
PredictLoop(acc, list, utt2label, utt2path) ==
    IF list = <<>> \/ acc.err # NoError THEN acc
    ELSE LET utt == Head(list)
         IN  IF utt \notin ODKeys(utt2label)
             THEN [acc EXCEPT !.err = ErrKeyError]                      \* line 568
             ELSE IF ODGet(utt2label, utt) \notin acc.labels_set
             THEN PredictLoop(acc, Tail(list), utt2label, utt2path)     \* line 570
             ELSE PredictLoop([acc EXCEPT
                                 !.paths = Append(@, ODGet(utt2path, utt)),
                                 !.paths_meta = Append(@, <<utt, ODGet(utt2label, utt)>>)],
                              Tail(list), utt2label, utt2path)

\* lines 538-572: the lists predict() builds from the manifests
PredictRegistry(in) ==
    LET utt2path == ODFromRows(<<>>, in.utt2path)
        utt2label == ODFromRows(<<>>, in.utt2label)
        utterance_list == Limited(ODKeyList(utt2path), in.file_limit)
        out == PredictLoop([err |-> NoError, labels_set |-> SeqToSet(in.labels),
                            paths |-> <<>>, paths_meta |-> <<>>],
                           utterance_list, utt2label, utt2path)
    IN  [err |-> out.err, utterance_list |-> utterance_list,
         paths |-> out.paths, paths_meta |-> out.paths_meta]

\* lines 575-580: self.extract_features(feat_config, "test", trim_audio=...,
\* debug_squeeze_last_dim=...) binds datasets and config and leaves the
\* parameter datagroup_key of line 134 without an argument
PredictExtractCall == [err |-> ErrTypeError]

\* lines 480-648: the run.  Everything from line 581 on (the cache, the
\* trials file at 631-634, the scores file at 641-646) comes after the call
\* of line 575.
predict(in) ==
    LET reg == PredictRegistry(in)
        unbuilt == [status |-> ErrNoCheckpoint, utterance_list |-> <<>>, paths |-> <<>>,
                    paths_meta |-> <<>>, trials |-> NoFile, scores |-> NoFile]
    IN  IF ~in.has_checkpoint THEN unbuilt                              \* lines 512-515
        ELSE IF reg.err # NoError
        THEN [unbuilt EXCEPT !.status = reg.err]
        ELSE [status |-> PredictExtractCall.err, utterance_list |-> reg.utterance_list,
              paths |-> reg.paths, paths_meta |-> reg.paths_meta,
              trials |-> NoFile, scores |-> NoFile]

\* SpecPredict: the test datagroup of dataset d1 with all the bounded manifests
PredictInit ==
    /\ \E l \in SeqsUpTo(Utts \X LabelNames, MaxLines),
          p \in SeqsUpTo({<<u, WavPath("d1", u)>> : u \in Utts}, MaxLines),
          labels \in {<<"en">>, <<"en", "fr">>},
          fl \in {0, 1}, ck \in BOOLEAN :
            pdIn = [key |-> "d1", labels |-> labels, utt2label |-> l, utt2path |-> p,
                    file_limit |-> fl, has_checkpoint |-> ck,
                    score_precision |-> 3, score_separator |-> ","]
    /\ pdOut = <<>>

PredictIdle ==
    /\ pdIn = <<>>
    /\ pdOut = <<>>

PredictStep ==
    /\ pdOut = <<>>
    /\ pdOut' = <<predict(pdIn)>>
    /\ UNCHANGED pdIn

(***************************************************************************)
(* The feature cache on disk (Train.train, lines 314-374, 432).            *)
(*                                                                         *)
(* marker[path] is the contents of path + ".md5sum-input", enc[path] the   *)
(* files tf.data writes under path: absent, partial (a writer has started  *)
(* and has not reached the end of its input) or complete, and the records  *)
(* written so far.                                                         *)
(***************************************************************************)
Procs == {"p1", "p2"}
MaxRuns == 2

\* lines 332-341: os.path.join(features_cache_dir, datagroup_key, type, checksum).
\* features_cache_dir is one directory for all the runs of the model:
\* self.cache_dir/features (persistent_features_cache, the default).
CachePathNoChecksum(datagroup_key, feat_type, conf_checksum) ==
    "features/" \o datagroup_key \o "/" \o feat_type
CachePath(datagroup_key, feat_type, conf_checksum) ==
    "features/" \o datagroup_key \o "/" \o feat_type \o "/" \o conf_checksum

FeatType(id) == Lookup(Lookup(ConfigOf(id), "features"), "type").s

\* lines 324, 336-341 for each configuration and each round of the loop:
\* conf_json, conf_checksum and features_cache_path
RunTable ==
    [id \in RunConfigIds |-> [ds \in 1..Len(DatagroupOf) |->
        LET sum == config_checksum(ConfigOf(id), DatagroupOf[ds])
        IN  [json |-> sum.json, digest |-> sum.digest,
             path |-> CachePath(DatagroupOf[ds], FeatType(id), sum.digest)]]]
Checksum(id, ds) == RunTable[id][ds]
PathOfRun(id, ds) == RunTable[id][ds].path

Paths == {PathOfRun(id, ds) : id \in RunConfigIds, ds \in 1..Len(DatagroupOf)}

IdleRun(status) ==
    [cmd |-> "none", status |-> status, config |-> "X",
     args_read |-> FALSE, shuffle_utt2path |-> FALSE, file_limit |-> 0,
     exhaust |-> FALSE, debug |-> FALSE, skip_training |-> FALSE,
     phase |-> "none", ds |-> 1, found |-> FALSE, streams |-> <<>>,
     todo |-> <<>>, mode |-> "none", pos |-> 0]

CacheIdle ==
    /\ pc = [p \in Procs |-> "idle"]
    /\ run = [p \in Procs |-> IdleRun("none")]
    /\ marker = [path \in Paths |-> NoFile]
    /\ enc = [path \in Paths |-> [state |-> "absent", recs |-> <<>>]]
    /\ hist = [path \in Paths |-> [fresh |-> 0, failed |-> FALSE,
                                      killed |-> FALSE, kmarker |-> NoFile]]
    /\ nruns = 0

\* the cache variables in the specifications that start no run
CacheUnused ==
    /\ pc = <<>>
    /\ run = <<>>
    /\ marker = <<>>
    /\ enc = <<>>
    /\ hist = <<>>
    /\ nruns = 0

OthersUnchanged == UNCHANGED <<ckIn, ckOut, rgIn, rgOut, ohIn, ohOut, pdIn, pdOut>>

CurPath(p) == PathOfRun(run[p].config, run[p].ds)
CurFresh(p) == run[p].streams[run[p].ds]
\* the records the pass of p is drawing from
CurSource(p) == IF run[p].mode = "read" THEN enc[CurPath(p)].recs ELSE CurFresh(p)

\* lines 271-313: a train run starts with its configuration.  The command
\* line options are fixed when the process starts; the model draws each of
\* them where train() first reads it (ArgsRead, SkipTrainingRead).
StartTrain(p) ==
    /\ pc[p] = "idle"
    /\ nruns < MaxRuns
    /\ \E id \in RunConfigIds :
          run' = [run EXCEPT ![p] =
                    [IdleRun("running") EXCEPT !.cmd = "train", !.config = id,
                                               !.phase = "build"]]
    /\ pc' = [pc EXCEPT ![p] = "prepare"]
    /\ nruns' = nruns + 1
    /\ UNCHANGED <<marker, enc, hist>>
    /\ OthersUnchanged

\* lines 271-313 for processes that run at the same time: each process
\* runs train() once, and its --file-limit and --exhaust-dataset-iterator
\* are drawn as it starts (no --shuffle-utt2path, no --debug-dataset)
StartConcurrent(p) ==
    /\ pc[p] = "idle"
    /\ run[p].status = "none"
    /\ \E id \in RunConfigIds, fl \in {0, 1}, ex \in BOOLEAN :
          run' = [run EXCEPT ![p] =
                    [IdleRun("running") EXCEPT !.cmd = "train", !.config = id,
                                               !.phase = "build", !.args_read = TRUE,
                                               !.file_limit = fl, !.exhaust = ex]]
    /\ pc' = [pc EXCEPT ![p] = "prepare"]
    /\ UNCHANGED <<marker, enc, hist, nruns>>
    /\ OthersUnchanged

\* --shuffle-utt2path, --file-limit, --exhaust-dataset-iterator and
\* --debug-dataset, first read in the first round of the loop
ArgsRead(r) ==
    IF r.ds = 1 /\ ~r.args_read
    THEN { [r EXCEPT !.shuffle_utt2path = sh, !.file_limit = fl, !.exhaust = ex, !.debug = dbg] :
             sh \in BOOLEAN, fl \in {0, 1}, ex \in BOOLEAN, dbg \in BOOLEAN }
    ELSE {r}
\* --skip-training, read at line 429
SkipTrainingRead(r) == { [r EXCEPT !.skip_training = skip] : skip \in BOOLEAN }

\* line 343: os.path.exists(features_cache_path + ".md5sum-input")
MarkerNeverFound(contents) == FALSE
MarkerExists(contents) == contents # NoFile

\* lines 352, 375: the passes train() makes over the cached stream of one
\* datagroup before it goes on: --exhaust-dataset-iterator iterates it
\* once, --debug-dataset reduces it twice in count_dim_sizes (lines 63, 71)
PassesOf(r) ==
    (IF r.exhaust THEN <<"exhaust">> ELSE <<>>)
    \o (IF r.debug THEN <<"debug_max_sizes", "debug_size_counts">> ELSE <<>>)

\* lines 343-350: where the run goes after looking for the marker
AfterLookupAlwaysCached(found) == "cached"
AfterLookup(found) == IF found THEN "cached" ELSE "write"

\* lines 319-343: extract_features for the datagroup of this round of the
\* loop, then the test for the marker file
Prepare(p) ==
    /\ pc[p] = "prepare"
    /\ LET config == ConfigOf(run[p].config)
           datasets == DiskDatasets(config, DatagroupOf[run[p].ds])
       IN  \E r \in ArgsRead(run[p]) : \E perm \in DrawnPerms(datasets, r) :
             LET ex == extract_features(datasets, Lookup(config, "features"), r, perm)
                 found == MarkerExists(marker[CurPath(p)])
             IN  IF ex.err # NoError
                 THEN /\ run' = [run EXCEPT ![p] = IdleRun(ex.err)]
                      /\ pc' = [pc EXCEPT ![p] = "idle"]
                 ELSE /\ run' = [run EXCEPT ![p] =
                                    [r EXCEPT !.streams = Append(@, ex.recs),
                                              !.found = found,
                                              !.todo = PassesOf(r)]]
                      /\ pc' = [pc EXCEPT ![p] = AfterLookup(found)]
    /\ UNCHANGED <<marker, enc, hist, nruns>>
    /\ OthersUnchanged

\* lines 344-345: print(conf_json, file=f, end='')
MarkerContents(conf_json) == conf_json

WriteMarker(p) ==
    /\ pc[p] = "write"
    /\ marker' = [marker EXCEPT ![CurPath(p)] =
                    MarkerContents(Checksum(run[p].config, run[p].ds).json)]
    /\ pc' = [pc EXCEPT ![p] = "cached"]
    /\ UNCHANGED <<run, enc, hist, nruns>>
    /\ OthersUnchanged

\* line 351, Dataset.cache(filename): an iterator over the cached dataset
\* replays a complete cache, starts writing where no cache files are, and
\* fails on cache files a writer has left unfinished
CacheMode(state) ==
    CASE state = "complete" -> "read"
      [] state = "absent" -> "write"
      [] OTHER -> "error"
ErrCache == "cache files left unfinished by another writer"

\* line 351: extractor_ds = extractor_ds.cache(filename=features_cache_path),
\* so every pass goes through the cache at the path of the run
NotCached(state) == "write"
PassMode(state) == CacheMode(state)

\* lines 359, 63, 71, 432: a pass over the cached stream begins
BeginPass(p) ==
    /\ pc[p] = "cached"
    /\ run[p].todo # <<>>
    /\ LET path == CurPath(p)
           mode == PassMode(enc[path].state)
       IN  CASE mode = "read" ->
                    /\ run' = [run EXCEPT ![p].mode = "read", ![p].pos = 0]
                    /\ pc' = [pc EXCEPT ![p] = "iter"]
                    /\ UNCHANGED <<enc, hist>>
              [] mode = "write" ->
                    /\ run' = [run EXCEPT ![p].mode = "write", ![p].pos = 0]
                    /\ pc' = [pc EXCEPT ![p] = "iter"]
                    /\ enc' = [enc EXCEPT ![path] = [state |-> "partial", recs |-> <<>>]]
                    /\ hist' = [hist EXCEPT ![path].fresh = @ + 1]
              [] OTHER ->
                    /\ run' = [run EXCEPT ![p] = IdleRun(ErrCache)]
                    /\ pc' = [pc EXCEPT ![p] = "idle"]
                    /\ hist' = [hist EXCEPT ![path].failed = TRUE]
                    /\ UNCHANGED enc
    /\ UNCHANGED <<marker, nruns>>
    /\ OthersUnchanged

\* line 351 under concurrent runs.  The writer of Dataset.cache(filename)
\* tests for cache files and for the lock file of another writer, and
\* creates its own lock file afterwards: two steps, not one test-and-set.
\* LockedMode is what the writer does when it creates its lock file, from
\* what it decided at the test and what the entry is by then.
LockedModeAtomic(decided, state) == CacheMode(state)
LockedMode(decided, state) == decided

\* the first step of a pass: the test of the cache files of the entry.  A
\* complete entry is replayed, unfinished files of another writer fail the
\* pass, and with no files the process goes on to become the writer.
CheckCacheFiles(p) ==
    /\ pc[p] = "cached"
    /\ run[p].todo # <<>>
    /\ LET path == CurPath(p)
           mode == PassMode(enc[path].state)
       IN  CASE mode = "read" ->
                    /\ run' = [run EXCEPT ![p].mode = "read", ![p].pos = 0]
                    /\ pc' = [pc EXCEPT ![p] = "iter"]
                    /\ UNCHANGED hist
              [] mode = "write" ->
                    /\ run' = [run EXCEPT ![p].mode = "write", ![p].pos = 0]
                    /\ pc' = [pc EXCEPT ![p] = "open"]
                    /\ UNCHANGED hist
              [] OTHER ->
                    /\ run' = [run EXCEPT ![p] = IdleRun(ErrCache)]
                    /\ pc' = [pc EXCEPT ![p] = "idle"]
                    /\ hist' = [hist EXCEPT ![path].failed = TRUE]
    /\ UNCHANGED <<marker, enc, nruns>>
    /\ OthersUnchanged

\* the second step: the writer creates its lock file and its cache files.
\* A writer that finds another writer's files in place of none writes all
\* the same; the entry then holds what the appends of both leave in it.
StartWriter(p) ==
    /\ pc[p] = "open"
    /\ LET path == CurPath(p)
           mode == LockedMode(run[p].mode, enc[path].state)
       IN  IF mode = "write"
           THEN /\ pc' = [pc EXCEPT ![p] = "iter"]
                /\ enc' = [enc EXCEPT ![path].state = "partial"]
                /\ hist' = [hist EXCEPT ![path].fresh = @ + 1]
                /\ UNCHANGED run
           ELSE /\ run' = [run EXCEPT ![p] = IdleRun(ErrCache)]
                /\ pc' = [pc EXCEPT ![p] = "idle"]
                /\ hist' = [hist EXCEPT ![path].failed = TRUE]
                /\ UNCHANGED enc
    /\ UNCHANGED <<marker, nruns>>
    /\ OthersUnchanged

\* the pass draws its next record; a writing pass appends it to the cache
Consume(p) ==
    /\ pc[p] = "iter"
    /\ run[p].pos < Len(CurSource(p))
    /\ run' = [run EXCEPT ![p].pos = @ + 1]
    /\ enc' = IF run[p].mode = "write"
               THEN [enc EXCEPT ![CurPath(p)].recs = Append(@, CurFresh(p)[run[p].pos + 1])]
               ELSE enc
    /\ UNCHANGED <<pc, marker, hist, nruns>>
    /\ OthersUnchanged

\* the pass reaches the end of its input; a writing pass completes the cache
EndPass(p) ==
    /\ pc[p] = "iter"
    /\ run[p].pos = Len(CurSource(p))
    /\ enc' = IF run[p].mode = "write"
               THEN [enc EXCEPT ![CurPath(p)].state = "complete"]
               ELSE enc
    /\ run' = [run EXCEPT ![p].todo = Tail(@), ![p].mode = "none", ![p].pos = 0]
    /\ pc' = [pc EXCEPT ![p] = "cached"]
    /\ UNCHANGED <<marker, hist, nruns>>
    /\ OthersUnchanged

\* lines 315, 429-432: the next round of the loop over ("train",
\* "validation"), then --skip-training or model.fit over both streams
NextDataset(p) ==
    /\ pc[p] = "cached"
    /\ run[p].todo = <<>>
    /\ LET r == run[p]
       IN  IF r.phase = "build" /\ r.ds < Len(DatagroupOf)
           THEN /\ run' = [run EXCEPT ![p].ds = @ + 1]
                /\ pc' = [pc EXCEPT ![p] = "prepare"]
           ELSE IF r.phase = "build"
           THEN \E a \in SkipTrainingRead(r) :
                  IF a.skip_training
                  THEN /\ run' = [run EXCEPT ![p] = IdleRun("returned")]
                       /\ pc' = [pc EXCEPT ![p] = "idle"]
                  ELSE /\ run' = [run EXCEPT ![p] =
                                     [a EXCEPT !.phase = "fit", !.ds = 1, !.todo = <<"fit">>]]
                       /\ UNCHANGED pc
           ELSE IF r.phase = "fit" /\ r.ds < Len(DatagroupOf)
           THEN /\ run' = [run EXCEPT ![p].ds = @ + 1, ![p].todo = <<"fit">>]
                /\ UNCHANGED pc
           ELSE /\ run' = [run EXCEPT ![p] = IdleRun("returned")]
                /\ pc' = [pc EXCEPT ![p] = "idle"]
    /\ UNCHANGED <<marker, enc, hist, nruns>>
    /\ OthersUnchanged

\* the process is terminated while a pass is under way
Kill(p) ==
    /\ pc[p] = "iter"
    /\ hist' = IF run[p].mode = "write"
                THEN [hist EXCEPT ![CurPath(p)].killed = TRUE,
                                  ![CurPath(p)].kmarker = marker[CurPath(p)]]
                ELSE hist
    /\ run' = [run EXCEPT ![p] = IdleRun("killed")]
    /\ pc' = [pc EXCEPT ![p] = "idle"]
    /\ UNCHANGED <<marker, enc, nruns>>
    /\ OthersUnchanged

\* Predict.predict, lines 480-580: the call of extract_features at line 575
\* passes feat_config and "test" for (datasets, config) and nothing for
\* datagroup_key, which raises TypeError before the cache is touched
PredictRun(p) ==
    /\ pc[p] = "idle"
    /\ nruns < MaxRuns
    /\ run' = [run EXCEPT ![p] = IdleRun(ErrTypeError)]
    /\ nruns' = nruns + 1
    /\ UNCHANGED <<pc, marker, enc, hist>>
    /\ OthersUnchanged

Init ==
    /\ ChecksumIdle
    /\ RegistryIdle
    /\ CacheIdle
    /\ OnehotIdle
    /\ PredictIdle

Next ==
    \/ StartTrain("p1")
    \/ Prepare("p1")
    \/ WriteMarker("p1")
    \/ BeginPass("p1")
    \/ Consume("p1")
    \/ EndPass("p1")
    \/ NextDataset("p1")
    \/ Kill("p1")
    \/ PredictRun("p1")

Spec == Init /\ [][Next]_vars

\* two processes that run train() at the same time, on one cache directory
ConcurrentNext ==
    \/ \E p \in Procs : StartConcurrent(p)
    \/ \E p \in Procs : Prepare(p)
    \/ \E p \in Procs : WriteMarker(p)
    \/ \E p \in Procs : CheckCacheFiles(p)
    \/ \E p \in Procs : StartWriter(p)
    \/ \E p \in Procs : Consume(p)
    \/ \E p \in Procs : EndPass(p)
    \/ \E p \in Procs : NextDataset(p)

SpecConcurrent == Init /\ [][ConcurrentNext]_vars

ChecksumNext == ComputeChecksums /\ UNCHANGED <<rgVars, cacheVars, ohVars, pdVars>>
InitChecksum ==
    /\ ChecksumInit
    /\ RegistryIdle
    /\ CacheUnused
    /\ OnehotIdle
    /\ PredictIdle
SpecChecksum == InitChecksum /\ [][ChecksumNext]_vars

RegistryNext == BuildRegistryStep /\ UNCHANGED <<ckVars, cacheVars, ohVars, pdVars>>
InitRegistry ==
    /\ ChecksumIdle
    /\ RegistryInit
    /\ CacheUnused
    /\ OnehotIdle
    /\ PredictIdle
SpecRegistry == InitRegistry /\ [][RegistryNext]_vars

OnehotNext == EncodeLabel /\ UNCHANGED <<ckVars, rgVars, cacheVars, pdVars>>
InitOnehot ==
    /\ ChecksumIdle
    /\ RegistryIdle
    /\ CacheUnused
    /\ OnehotInit
    /\ PredictIdle
SpecOnehot == InitOnehot /\ [][OnehotNext]_vars

PredictNext == PredictStep /\ UNCHANGED <<ckVars, rgVars, cacheVars, ohVars>>
InitPredict ==
    /\ ChecksumIdle
    /\ RegistryIdle
    /\ CacheUnused
    /\ OnehotIdle
    /\ PredictInit
SpecPredict == InitPredict /\ [][PredictNext]_vars

(***************************************************************************)
(* Properties.                                                             *)
(***************************************************************************)

\* C1: two configurations with equal "features" and equal "datasets" values
\* get the same canonical JSON and the same digest from config_checksum,
\* whatever their other keys and whatever datagroup_key is passed.
C1_SameSubtreesSameFingerprint ==
    (/\ ckOut # <<>>
     /\ PyEq(Lookup(ckIn.a, "features"), Lookup(ckIn.b, "features"))
     /\ PyEq(Lookup(ckIn.a, "datasets"), Lookup(ckIn.b, "datasets")))
    => (ckOut[1].json = ckOut[2].json /\ ckOut[1].digest = ckOut[2].digest)

\* two inputs that agree on both subtrees (written in another key order) and
\* differ in "experiment" and in datagroup_key, with equal results
C1_Witness ==
    /\ ckOut # <<>>
    /\ PyEq(Lookup(ckIn.a, "features"), Lookup(ckIn.b, "features"))
    /\ Lookup(ckIn.a, "features") # Lookup(ckIn.b, "features")
    /\ PyEq(Lookup(ckIn.a, "datasets"), Lookup(ckIn.b, "datasets"))
    /\ ~PyEq(Lookup(ckIn.a, "experiment"), Lookup(ckIn.b, "experiment"))
    /\ ckIn.ka # ckIn.kb
    /\ ckOut[1] = ckOut[2]

\* C2: a pass that reads a populated cache entry obtains the record sequence
\* that the fresh extraction of the reading run would produce, whatever the
\* file limit and shuffle options of the populating and of the reading run.
C2_ReplayEqualsFreshExtraction ==
    \A p \in Procs :
        (pc[p] = "iter" /\ run[p].mode = "read") => enc[CurPath(p)].recs = CurFresh(p)

\* C3 as stated: for every cache entry the stream is computed freshly at most
\* once and every other pass over it replays the persisted encoding (no
\* pass fails to replay it), over any sequence of runs.
C3_AtMostOneFreshAnyRuns ==
    \A path \in Paths : hist[path].fresh <= 1 /\ ~hist[path].failed

\* C3 as amended: for every cache entry no writing pass of which has been cut
\* short, the stream is computed freshly at most once, and every other pass
\* over the entry replays the complete persisted encoding.
C3_AtMostOneFreshIfUninterrupted ==
    \A path \in Paths : ~hist[path].killed =>
        /\ hist[path].fresh <= 1
        /\ ~hist[path].failed
        /\ \A p \in Procs : (pc[p] = "iter" /\ CurPath(p) = path) =>
              \/ run[p].mode = "write" /\ enc[path].state = "partial" /\ hist[path].fresh = 1
              \/ run[p].mode = "read" /\ enc[path].state = "complete" /\ hist[path].fresh = 1

\* a second run replays, in its training pass, an entry computed once before
C3_Witness ==
    /\ nruns = 2
    /\ pc["p1"] = "iter"
    /\ run["p1"].mode = "read"
    /\ run["p1"].phase = "fit"
    /\ run["p1"].pos = 2
    /\ hist[CurPath("p1")].fresh = 1
    /\ ~hist[CurPath("p1")].killed

\* C4: in a run that found no marker file for its cache entry, the canonical
\* JSON is in the marker file whenever a pass over the stream is under way,
\* so before the first record is consumed.
C4_MarkerWrittenBeforeFirstRecord ==
    \A p \in Procs : pc[p] = "iter" =>
        /\ marker[CurPath(p)] # NoFile
        /\ (run[p].phase = "build" /\ ~run[p].found) =>
              marker[CurPath(p)] = Checksum(run[p].config, run[p].ds).json

\* the exhaust pass of a run that found no marker has consumed its first record
C4_Witness ==
    /\ pc["p1"] = "iter"
    /\ run["p1"].phase = "build"
    /\ ~run["p1"].found
    /\ run["p1"].todo # <<>>
    /\ Head(run["p1"].todo) = "exhaust"
    /\ run["p1"].pos = 1
    /\ marker[CurPath("p1")] = Checksum(run["p1"].config, run["p1"].ds).json

\* C5: a run that found the marker file of its cache entry reads the records
\* from the persisted encoding in every pass, and does not compute them.
C5_MarkerFoundMeansReplay ==
    \A p \in Procs :
        (pc[p] = "iter" /\ run[p].phase = "build" /\ run[p].found) => run[p].mode = "read"

\* C6: once a run has been killed while writing a cache entry, the marker
\* stays as it was, the encoding stays incomplete, and every later run on
\* that entry finds the marker and does not write it.
C6_KilledEntryIsNotRepaired ==
    \A path \in Paths : hist[path].killed =>
        /\ marker[path] # NoFile
        /\ marker[path] = hist[path].kmarker
        /\ enc[path].state = "partial"
        /\ \A p \in Procs :
              (run[p].phase = "build" /\ CurPath(p) = path /\ pc[p] \in {"write", "cached", "iter"})
                  => (pc[p] # "write" /\ run[p].found)

\* a later run has found the marker of an entry left by a killed run
C6_Witness ==
    /\ pc["p1"] = "cached"
    /\ run["p1"].phase = "build"
    /\ run["p1"].found
    /\ hist[CurPath("p1")].killed
    /\ enc[CurPath("p1")].state = "partial"
    /\ Len(enc[CurPath("p1")].recs) = 1

\* cache_root/datagroup_key/feature_type/F for the run of p, written out
\* from the digest of its configuration
EntryOfRun(p) ==
    "features/" \o DatagroupOf[run[p].ds] \o "/" \o FeatType(run[p].config)
        \o "/" \o Checksum(run[p].config, run[p].ds).digest

\* C7: every step that changes a marker file or an encoding is a step of a
\* run and changes the files at cache_root/datagroup_key/feature_type/F of
\* that run only; the files under every other fingerprint stay as they are.
C7_WritesOnlyOwnEntry ==
    [][\A path \in Paths :
          (marker'[path] # marker[path] \/ enc'[path] # enc[path])
              => \E p \in Procs : pc[p] # "idle" /\ path = EntryOfRun(p)]_vars

\* a run of configuration X is writing its entry while the entry of another
\* fingerprint (configuration Y) is complete on disk
C7_Witness ==
    /\ pc["p1"] = "iter"
    /\ run["p1"].config = "X"
    /\ run["p1"].mode = "write"
    /\ run["p1"].pos = 1
    /\ enc[PathOfRun("Y", 1)].state = "complete"
    /\ marker[PathOfRun("Y", 1)] = Checksum("Y", 1).json
    /\ PathOfRun("Y", 1) # CurPath("p1")

(***************************************************************************)
(* The registry claims, stated on the manifests of rgIn.                   *)
(***************************************************************************)
Enabled(ds) == SeqToSet(ds.labels)
\* the ids a dataset's label manifest gives a label that is not enabled
RejectedIn(ds) ==
    {ds.utt2label[i][1] : i \in {j \in 1..Len(ds.utt2label) : ds.utt2label[j][2] \notin Enabled(ds)}}
\* the rows of the label manifests and of the path manifests of a run, as
\* <<number of the dataset, number of the row>>
LabelLines(datasets) ==
    UNION {{<<d, i>> : i \in 1..Len(datasets[d].utt2label)} : d \in 1..Len(datasets)}
PathLines(datasets) ==
    UNION {{<<d, i>> : i \in 1..Len(datasets[d].utt2path)} : d \in 1..Len(datasets)}
LabelLineKept(datasets, x) == datasets[x[1]].utt2label[x[2]][2] \in Enabled(datasets[x[1]])
PathLineKept(datasets, x) == datasets[x[1]].utt2path[x[2]][1] \notin RejectedIn(datasets[x[1]])
KeptLabelIds(datasets) ==
    {datasets[x[1]].utt2label[x[2]][1] : x \in {y \in LabelLines(datasets) : LabelLineKept(datasets, y)}}
KeptPathIds(datasets) ==
    {datasets[x[1]].utt2path[x[2]][1] : x \in {y \in PathLines(datasets) : PathLineKept(datasets, y)}}

\* C8: registry construction ends without error only if the ids kept from
\* the label manifests equal the ids kept from the path manifests; when the
\* two sets differ it ends with a fatal error.
C8_SuccessOnlyIfSameIds ==
    rgOut # <<>> =>
        /\ rgOut[1].reg.err = NoError => KeptLabelIds(rgIn.datasets) = KeptPathIds(rgIn.datasets)
        /\ KeptLabelIds(rgIn.datasets) # KeptPathIds(rgIn.datasets) => rgOut[1].reg.err # NoError

\* the two sets differ and construction ended in the assertion of line 184
C8_Witness ==
    /\ rgOut # <<>>
    /\ KeptLabelIds(rgIn.datasets) # KeptPathIds(rgIn.datasets)
    /\ KeptPathIds(rgIn.datasets) # {}
    /\ rgOut[1].reg.err = ErrMismatch

\* two different rows of the path manifests (of the label manifests) of the
\* run define the same utterance id
PathIdTwice(datasets, lines) ==
    \E x, y \in lines :
        x # y /\ datasets[x[1]].utt2path[x[2]][1] = datasets[y[1]].utt2path[y[2]][1]
LabelIdTwice(datasets, lines) ==
    \E x, y \in lines :
        x # y /\ datasets[x[1]].utt2label[x[2]][1] = datasets[y[1]].utt2label[y[2]][1]

\* C9 as stated: whenever the same utterance id is defined on two rows of
\* the path manifests, or on two rows of the label manifests, registry
\* construction ends with a fatal error.
C9_AnyDuplicateIsFatal ==
    (/\ rgOut # <<>>
     /\ \/ PathIdTwice(rgIn.datasets, PathLines(rgIn.datasets))
        \/ LabelIdTwice(rgIn.datasets, LabelLines(rgIn.datasets)))
    => rgOut[1].reg.err # NoError

\* C9 as amended: whenever the same utterance id is defined on two rows of
\* the path manifests that label filtering does not skip, or on two rows of
\* the label manifests whose labels are enabled, registry construction ends
\* with a fatal error, and hands no path to feature extraction.
C9_KeptDuplicateIsFatal ==
    (/\ rgOut # <<>>
     /\ \/ PathIdTwice(rgIn.datasets,
                       {x \in PathLines(rgIn.datasets) : PathLineKept(rgIn.datasets, x)})
        \/ LabelIdTwice(rgIn.datasets,
                       {x \in LabelLines(rgIn.datasets) : LabelLineKept(rgIn.datasets, x)}))
    => (rgOut[1].reg.err # NoError /\ rgOut[1].reg.paths = <<>>)

\* two kept rows of the path manifests define one id, no label is missing,
\* and construction ended in the assertion of line 178
C9_Witness ==
    /\ rgOut # <<>>
    /\ PathIdTwice(rgIn.datasets,
                   {x \in PathLines(rgIn.datasets) : PathLineKept(rgIn.datasets, x)})
    /\ ~LabelIdTwice(rgIn.datasets, LabelLines(rgIn.datasets))
    /\ KeptLabelIds(rgIn.datasets) = KeptPathIds(rgIn.datasets)
    /\ rgOut[1].reg.err = ErrDupPath

\* the ids to which the label manifest of ds gives labels, none of them enabled
DisabledIn(ds) == RejectedIn(ds) \ {ds.utt2label[i][1] : i \in
                        {j \in 1..Len(ds.utt2label) : ds.utt2label[j][2] \in Enabled(ds)}}
\* the manifest rows, without the rows of utt
RowsWithout(rows, utt) == SelectSeq(rows, LAMBDA row : row[1] # utt)
\* the datasets, with utt taken out of the label and path manifests of dataset d
Without(datasets, d, utt) ==
    [datasets EXCEPT ![d].utt2label = RowsWithout(@, utt), ![d].utt2path = RowsWithout(@, utt)]
LabelsOfKey(datasets, key) ==
    UNION {Enabled(datasets[d]) : d \in {e \in 1..Len(datasets) : datasets[e].key = key}}

\* C10: every utterance of the registry has a label enabled in the dataset
\* that defined it; an utterance whose labels in a dataset are not enabled
\* is in neither list on behalf of that dataset, and its rows in the label
\* and path manifests of that dataset change nothing: construction ends as
\* it does without them, error or not.
C10_OnlyEnabledLabels ==
    rgOut # <<>> =>
        LET reg == rgOut[1].reg
            datasets == rgIn.datasets
        IN  /\ Len(reg.paths) = Len(reg.paths_meta)
            /\ \A i \in 1..Len(reg.paths_meta) :
                  reg.paths_meta[i][2] \in LabelsOfKey(datasets, reg.paths_meta[i][3])
            /\ \A d \in 1..Len(datasets) : \A utt \in DisabledIn(datasets[d]) :
                  /\ \A i \in 1..Len(reg.paths_meta) :
                        ~(reg.paths_meta[i][1] = utt /\ reg.paths_meta[i][3] = datasets[d].key)
                  /\ WavPath(datasets[d].key, utt) \notin SeqToSet(reg.paths)
                  /\ BuildRegistry(Without(datasets, d, utt), rgIn, rgOut[1].perm) = reg

\* utt2label gives a an enabled and b another label, utt2path lists both,
\* and the registry holds a alone
C10_Witness ==
    /\ rgOut # <<>>
    /\ Len(rgIn.datasets) = 1
    /\ rgIn.datasets[1].utt2label = << <<"a", "en">>, <<"b", "fr">> >>
    /\ rgIn.datasets[1].utt2path = << <<"a", WavPath("d1", "a")>>, <<"b", WavPath("d1", "b")>> >>
    /\ rgOut[1].reg.err = NoError
    /\ rgOut[1].reg.paths = <<WavPath("d1", "a")>>
    /\ rgOut[1].reg.utterance_list = <<"a">>

\* the ids of the path manifests of a run in manifest order, without the
\* rows skipped by label filtering
RECURSIVE PathOrderIds(_)
PathOrderIds(datasets) ==
    IF datasets = <<>> THEN <<>>
    ELSE LET ds == Head(datasets)
             kept == SelectSeq(ds.utt2path, LAMBDA row : row[1] \notin RejectedIn(ds))
         IN  [i \in 1..Len(kept) |-> kept[i][1]] \o PathOrderIds(Tail(datasets))
\* the number of ids a file limit of n leaves of len ids
LimitOf(n, len) == IF n = 0 \/ n > len THEN len ELSE n

\* C11: with shuffling and a file limit N the registry is the first N ids of
\* the shuffled permutation, in its order; without shuffling it is the first
\* N ids of path manifest order.
C11_TruncationAfterShuffle ==
    (rgOut # <<>> /\ rgOut[1].reg.err = NoError) =>
        LET ids == PathOrderIds(rgIn.datasets)
            perm == rgOut[1].perm
            k == LimitOf(rgIn.file_limit, Len(ids))
            list == rgOut[1].reg.utterance_list
        IN  /\ Len(list) = k
            /\ \A i \in 1..k :
                  list[i] = IF Shuffles(rgIn.datasets, rgIn) THEN ids[perm[i]] ELSE ids[i]

\* a shuffle that swaps a and b under a file limit of 1: the registry is b,
\* not the first id of manifest order
C11_Witness ==
    /\ rgOut # <<>>
    /\ rgOut[1].reg.err = NoError
    /\ rgIn.shuffle_utt2path
    /\ rgIn.file_limit = 1
    /\ PathOrderIds(rgIn.datasets) = <<"a", "b">>
    /\ rgOut[1].perm = <<2, 1>>
    /\ rgOut[1].reg.utterance_list = <<"b">>


\* the ids the rows of a manifest name
RowIds(rows) == {rows[i][1] : i \in 1..Len(rows)}
\* every path row and every duration row of a dataset names an utterance of
\* the label manifest of that dataset
ManifestsAgree(datasets) ==
    \A d \in 1..Len(datasets) :
        /\ RowIds(datasets[d].utt2path) \subseteq RowIds(datasets[d].utt2label)
        /\ RowIds(datasets[d].utt2dur) \subseteq RowIds(datasets[d].utt2label)

\* C12: when the label manifests have rows and none of them has an enabled
\* label, registry construction succeeds with an empty registry, whatever
\* the path and duration manifests say of the utterances of the label
\* manifests.
C12_NoMatchGivesEmptyRegistry ==
    (/\ rgOut # <<>>
     /\ LabelLines(rgIn.datasets) # {}
     /\ KeptLabelIds(rgIn.datasets) = {}
     /\ ManifestsAgree(rgIn.datasets)) =>
        /\ rgOut[1].reg.err = NoError
        /\ rgOut[1].reg.paths = <<>>
        /\ rgOut[1].reg.paths_meta = <<>>

\* the vector of length n that is 1 at position i (counted from 1)
UnitVector(n, i) == [j \in 1..n |-> IF j = i THEN 1 ELSE 0]

\* C13: encoding the label at position i of a vocabulary of size L yields
\* the vector of length L, or of length onehot_dims when that is set, that
\* is 1 at position i and 0 elsewhere; a label outside the vocabulary
\* raises an error and returns no vector.
C13_OnehotEncoding ==
    ohOut # <<>> =>
        LET labels == ohIn.labels
            n == IF ohIn.onehot_dims # 0 THEN ohIn.onehot_dims ELSE Len(labels)
        IN  IF \E i \in 1..Len(labels) : labels[i] = ohIn.label
            THEN /\ ohOut[1].err = NoError
                 /\ ohOut[1].vec =
                        UnitVector(n, CHOOSE i \in 1..Len(labels) : labels[i] = ohIn.label)
            ELSE ohOut[1].err # NoError


(***************************************************************************)
(* The prediction claims, stated on the files of pdIn.  A line of a file   *)
(* is the sequence of its fields; a line of the scores file also records   *)
(* the separator that joins them.                                          *)
(***************************************************************************)
\* a prediction run that has what it needs: a checkpoint, and manifests that
\* name the same utterances, each once
PredictInputValid ==
    /\ pdIn.has_checkpoint
    /\ pdIn.utt2label # <<>>
    /\ RowIds(pdIn.utt2label) = RowIds(pdIn.utt2path)
    /\ \A i, j \in 1..Len(pdIn.utt2label) :
          pdIn.utt2label[i][1] = pdIn.utt2label[j][1] => i = j
    /\ \A i, j \in 1..Len(pdIn.utt2path) :
          pdIn.utt2path[i][1] = pdIn.utt2path[j][1] => i = j

\* C14: the trials file of a prediction run has exactly one line for each
\* pair of a language of the vocabulary and an utterance, and the line says
\* target exactly when the label of the utterance is that language.
C14_TrialsOneLinePerPair ==
    (pdOut # <<>> /\ PredictInputValid) =>
        /\ pdOut[1].trials # NoFile
        /\ Len(pdOut[1].trials) = Len(pdIn.labels) * Len(pdIn.utt2label)
        /\ \A k \in 1..Len(pdIn.labels), r \in 1..Len(pdIn.utt2label) :
              LET lang == pdIn.labels[k]
                  utt == pdIn.utt2label[r][1]
                  tag == IF pdIn.utt2label[r][2] = lang THEN "target" ELSE "nontarget"
              IN  Cardinality({i \in 1..Len(pdOut[1].trials) :
                                  /\ pdOut[1].trials[i][1] = lang
                                  /\ pdOut[1].trials[i][2] = utt}) = 1
                  /\ \E i \in 1..Len(pdOut[1].trials) : pdOut[1].trials[i] = <<lang, utt, tag>>

\* the scores the model returns for an utterance, one for each language of
\* the vocabulary, in units of 0.00001
PredictionOf(utt, n) ==
    SubSeq(IF utt = "a" THEN <<12345, 50000, 37655>> ELSE <<50000, 37655, 12345>>, 1, n)

Power10(n) == IF n = 0 THEN 1 ELSE IF n = 1 THEN 10 ELSE IF n = 2 THEN 100 ELSE 1000
DigitText(d) == <<"0", "1", "2", "3", "4", "5", "6", "7", "8", "9">>[d + 1]
RECURSIVE DigitsText(_, _)
DigitsText(n, width) ==
    IF width = 0 THEN "" ELSE DigitsText(n \div 10, width - 1) \o DigitText(n % 10)
\* a score printed with exactly prec decimal digits: 12345 -> "0.123",
\* 50000 -> "0.500", 37655 -> "0.377" for prec = 3
FixedDecimals(x, prec) ==
    LET q == (x * Power10(prec) + 50000) \div 100000
    IN  DigitsText(q \div Power10(prec), 1) \o "." \o DigitsText(q % Power10(prec), prec)

\* the ids of the utterances in the order the assembled stream yields them:
\* the order of the lists the run hands to feature extraction
StreamIds == [i \in 1..Len(pdOut[1].paths_meta) |-> pdOut[1].paths_meta[i][1]]

\* C15: the scores file starts with the vocabulary joined by spaces; each
\* row after it is an utterance id and its L scores, joined by the
\* configured separator, each score printed with exactly the configured
\* number of decimal digits.
C15_ScoresFileFormat ==
    (pdOut # <<>> /\ PredictInputValid) =>
        /\ pdOut[1].scores # NoFile
        /\ Len(pdOut[1].scores) >= 1
        /\ pdOut[1].scores[1] = [sep |-> " ", fields |-> pdIn.labels]
        /\ \A i \in 2..Len(pdOut[1].scores) :
              LET row == pdOut[1].scores[i]
              IN  /\ row.sep = pdIn.score_separator
                  /\ Len(row.fields) = 1 + Len(pdIn.labels)
                  /\ \A k \in 1..Len(pdIn.labels) :
                        row.fields[k + 1] =
                            FixedDecimals(PredictionOf(row.fields[1], Len(pdIn.labels))[k],
                                          pdIn.score_precision)

\* C16: row i of the scores file carries the i-th utterance id the stream
\* yielded together with the scores the model returned for that utterance.
C16_ScoresRowsFollowStream ==
    (pdOut # <<>> /\ PredictInputValid) =>
        /\ pdOut[1].scores # NoFile
        /\ Len(pdOut[1].scores) = 1 + Len(StreamIds)
        /\ \A i \in 1..Len(StreamIds) :
              /\ pdOut[1].scores[i + 1].fields[1] = StreamIds[i]
              /\ Tail(pdOut[1].scores[i + 1].fields) =
                    [k \in 1..Len(pdIn.labels) |->
                        FixedDecimals(PredictionOf(StreamIds[i], Len(pdIn.labels))[k],
                                      pdIn.score_precision)]


\* the registry extract_features builds for a train run on the dataset and
\* the file limit of pdIn
TrainRegistryOfPredictInput ==
    BuildRegistry(<<[key |-> pdIn.key, labels |-> pdIn.labels,
                     utt2label |-> pdIn.utt2label, utt2path |-> pdIn.utt2path,
                     has_utt2dur |-> FALSE, utt2dur |-> <<>>,
                     shuffle_utt2path |-> FALSE]>>,
                  [shuffle_utt2path |-> FALSE, file_limit |-> pdIn.file_limit], <<>>)

\* C18: for the same manifests, label set and file limit, the prediction
\* path hands to feature extraction the ordered (path, label, dataset,
\* duration) list and the id list that the training path hands to it.
C18_SameRegistryForTrainAndPredict ==
    (pdOut # <<>> /\ pdIn.has_checkpoint /\ TrainRegistryOfPredictInput.err = NoError) =>
        /\ pdOut[1].status \notin {ErrKeyError, ErrNoCheckpoint}
        /\ pdOut[1].paths = TrainRegistryOfPredictInput.paths
        /\ pdOut[1].paths_meta = TrainRegistryOfPredictInput.paths_meta
        /\ pdOut[1].utterance_list = TrainRegistryOfPredictInput.utterance_list


\* the rows of the duration manifests that exist, as <<dataset, row>>
DurLines(datasets) ==
    UNION {{<<d, i>> : i \in 1..Len(datasets[d].utt2dur)} :
              d \in {e \in 1..Len(datasets) : datasets[e].has_utt2dur}}
\* the ids with a label entry once the label manifest of dataset d is read
LabelledUpTo(datasets, d) ==
    {datasets[x[1]].utt2label[x[2]][1] :
        x \in {y \in LabelLines(datasets) : y[1] <= d /\ LabelLineKept(datasets, y)}}
DurRowUnlabelled(datasets, x) ==
    datasets[x[1]].utt2dur[x[2]][1] \notin LabelledUpTo(datasets, x[1])
SomeDurRowUnlabelled(datasets) == \E x \in DurLines(datasets) : DurRowUnlabelled(datasets, x)
NoKeptDuplicate(datasets) ==
    /\ ~PathIdTwice(datasets, {x \in PathLines(datasets) : PathLineKept(datasets, x)})
    /\ ~LabelIdTwice(datasets, {x \in LabelLines(datasets) : LabelLineKept(datasets, x)})

\* C20: registry construction ends in the duration assertion only if a row
\* of an existing duration manifest names an id with no label entry at that
\* point; such a row is always fatal, and is the duration assertion unless
\* a duplicate id stops the run; when every duration row names a labelled
\* id the duration manifests cause no error: construction succeeds exactly
\* when the other rules (no kept duplicate, same id sets) hold.
C20_DurationRowNeedsLabel ==
    rgOut # <<>> =>
        LET datasets == rgIn.datasets
            err == rgOut[1].reg.err
        IN  /\ err = ErrDurNoLabel => SomeDurRowUnlabelled(datasets)
            /\ SomeDurRowUnlabelled(datasets) => err \in {ErrDurNoLabel, ErrDupLabel, ErrDupPath}
            /\ (SomeDurRowUnlabelled(datasets) /\ NoKeptDuplicate(datasets)) => err = ErrDurNoLabel
            /\ (/\ ~SomeDurRowUnlabelled(datasets)
                /\ NoKeptDuplicate(datasets)
                /\ KeptLabelIds(datasets) = KeptPathIds(datasets)) => err = NoError

\* the duration manifest of the first dataset names an id that only the
\* second dataset labels: the assertion of line 168 ends construction
C20_Witness ==
    /\ rgOut # <<>>
    /\ Len(rgIn.datasets) = 2
    /\ \E x \in DurLines(rgIn.datasets) :
          /\ x[1] = 1
          /\ DurRowUnlabelled(rgIn.datasets, x)
          /\ rgIn.datasets[1].utt2dur[x[2]][1] \in KeptLabelIds(rgIn.datasets)
    /\ rgOut[1].reg.err = ErrDurNoLabel

\* a duration row of a labelled id is read without error and its duration
\* reaches the registry
C20_WitnessLabelled ==
    /\ rgOut # <<>>
    /\ DurLines(rgIn.datasets) # {}
    /\ ~SomeDurRowUnlabelled(rgIn.datasets)
    /\ rgOut[1].reg.err = NoError
    /\ \E i \in 1..Len(rgOut[1].reg.paths_meta) : rgOut[1].reg.paths_meta[i][4] # NoDuration

\* the manifests of the datasets break a consistency rule: an id kept twice
\* by the same manifest kind, kept id sets that differ, or a duration row
\* for an id without a label entry
Inconsistent(datasets) ==
    \/ SomeDurRowUnlabelled(datasets)
    \/ PathIdTwice(datasets, {x \in PathLines(datasets) : PathLineKept(datasets, x)})
    \/ LabelIdTwice(datasets, {x \in LabelLines(datasets) : LabelLineKept(datasets, x)})
    \/ KeptLabelIds(datasets) # KeptPathIds(datasets)
\* the configurations and rounds of the loop whose datagroup is inconsistent
InconsistentRounds ==
    UNION {IF Inconsistent(DiskDatasets(ConfigOf(x[1]), DatagroupOf[x[2]])) THEN {x} ELSE {} :
              x \in RunConfigIds \X (1..Len(DatagroupOf))}

\* C17: a run whose datagroup breaks a consistency rule gets no stream from
\* the extraction backend for it and never reaches the marker or the cache
\* of that datagroup, which stay as they were: never created.
C17_NoExtractionAfterConsistencyError ==
    /\ \A x \in InconsistentRounds :
          /\ marker[PathOfRun(x[1], x[2])] = NoFile
          /\ enc[PathOfRun(x[1], x[2])] = [state |-> "absent", recs |-> <<>>]
    /\ \A p \in Procs :
          (pc[p] # "idle" /\ <<run[p].config, run[p].ds>> \in InconsistentRounds) =>
              /\ pc[p] = "prepare"
              /\ Len(run[p].streams) < run[p].ds

\* a run on the inconsistent datagroup of W (d1 and d2 both list a path for
\* a) has ended on the duplicate, after a run that filled the entry of X
C17_Witness ==
    /\ <<"W", 1>> \in InconsistentRounds
    /\ nruns = 2
    /\ pc["p1"] = "idle"
    /\ run["p1"].status = ErrDupPath
    /\ enc[PathOfRun("X", 1)].state = "complete"
    /\ marker[PathOfRun("W", 1)] = NoFile


\* q is between its test for the marker, which it found absent, and the end
\* of its writing pass over the entry at path
HoldsEntry(q, path) ==
    /\ pc[q] \in {"write", "cached", "open", "iter"}
    /\ CurPath(q) = path
    /\ run[q].phase = "build"
    /\ ~run[q].found

\* C19: nothing a run does on a cache entry holds back another run on the
\* same entry.  While q is between finding the marker absent and the end of
\* its writing pass, the next step of p, where its datagroup is extracted
\* without error and the marker is still absent, is to go on to write the
\* marker; p about to write the marker writes it; and p that found no
\* cache files starts writing the encoding.
C19_NoLockBetweenRuns ==
    [][\A p, q \in Procs :
        (p # q /\ pc[p] # "idle" /\ HoldsEntry(q, CurPath(p)) /\ pc'[p] # pc[p]) =>
            /\ (/\ pc[p] = "prepare"
                /\ <<run[p].config, run[p].ds>> \notin InconsistentRounds
                /\ FeatType(run[p].config) # "kaldi"
                /\ marker[CurPath(p)] = NoFile)
                   => pc'[p] = "write"
            /\ pc[p] = "write" =>
                   (pc'[p] = "cached" /\ marker'[CurPath(p)] # NoFile)
            /\ pc[p] = "open" =>
                   (pc'[p] = "iter" /\ run'[p].mode = "write"
                      /\ enc'[CurPath(p)].state = "partial")]_vars

\* both runs found the marker of one path absent, both wrote it, and both
\* are writing passes over the encoding of that path
C19_Witness ==
    /\ CurPath("p1") = CurPath("p2")
    /\ \A p \in Procs :
          /\ pc[p] = "iter"
          /\ run[p].mode = "write"
          /\ run[p].phase = "build"
          /\ ~run[p].found
    /\ marker[CurPath("p1")] # NoFile
    /\ hist[CurPath("p1")].fresh = 2


\* the rows of the existing duration manifests that name utt
DurLinesOf(datasets, utt) ==
    {x \in DurLines(datasets) : datasets[x[1]].utt2dur[x[2]][1] = utt}
\* the last of them, in the order the manifests are read
LastDurLineOf(datasets, utt) ==
    CHOOSE x \in DurLinesOf(datasets, utt) :
        \A y \in DurLinesOf(datasets, utt) :
            y[1] < x[1] \/ (y[1] = x[1] /\ y[2] <= x[2])
\* the duration the manifests record for utt, in tenths of a second: that of
\* its last duration row, -1.0 without one
DurationRecorded(datasets, utt) ==
    IF DurLinesOf(datasets, utt) = {} THEN -10
    ELSE LET x == LastDurLineOf(datasets, utt)
         IN  Float(datasets[x[1]].utt2dur[x[2]][2])

\* C21: when registry construction succeeds the path list and the metadata
\* list have one length, the i-th path is the one a kept path row gives the
\* id of the i-th metadata entry, no id occurs twice, and every metadata
\* entry carries the label and the dataset key of a kept label row of its
\* id and the duration of the last duration row of its id, -1.0 when no
\* existing duration manifest names it.
C21_RegistryListsAgree ==
    (rgOut # <<>> /\ rgOut[1].reg.err = NoError) =>
        LET datasets == rgIn.datasets
            paths == rgOut[1].reg.paths
            meta == rgOut[1].reg.paths_meta
        IN  /\ Len(paths) = Len(meta)
            /\ \A i, j \in 1..Len(meta) : meta[i][1] = meta[j][1] => i = j
            /\ \A i \in 1..Len(meta) :
                  /\ \E x \in PathLines(datasets) :
                        /\ PathLineKept(datasets, x)
                        /\ datasets[x[1]].utt2path[x[2]] = <<meta[i][1], paths[i]>>
                  /\ \E x \in LabelLines(datasets) :
                        /\ LabelLineKept(datasets, x)
                        /\ datasets[x[1]].utt2label[x[2]] = <<meta[i][1], meta[i][2]>>
                        /\ datasets[x[1]].key = meta[i][3]
                  /\ meta[i][4] = DurationRecorded(datasets, meta[i][1])

\* a registry of two utterances of two datasets, one with a duration row
\* and one without
C21_Witness ==
    /\ rgOut # <<>>
    /\ rgOut[1].reg.err = NoError
    /\ Len(rgOut[1].reg.paths) = 2
    /\ Len(rgOut[1].reg.paths_meta) = 2
    /\ rgOut[1].reg.paths_meta[1][3] # rgOut[1].reg.paths_meta[2][3]
    /\ \E i, j \in 1..2 :
          /\ rgOut[1].reg.paths_meta[i][4] = 25
          /\ rgOut[1].reg.paths_meta[j][4] = -10


====
